---------------------------- MODULE Spec2Model ----------------------------
(***************************************************************************)
(* Golden-master regression harness of the fonemas library                 *)
(* (golden_dataset.py): corpus ingestion, golden dataset generation,       *)
(* persistence, comparison, the test loop, the summary and the exit code.  *)
(*                                                                         *)
(* Python values are represented as follows:                               *)
(*   str (corpus text, sentences)  sequence of one-character strings       *)
(*   str (messages)                TLA+ string                             *)
(*   list                          sequence                                *)
(*   dict                          function from keys (strings) to values  *)
(***************************************************************************)
EXTENDS Integers, Sequences, FiniteSets, TLC

VARIABLES
    corpus,       \* content of the corpus file (characters), or NoFile
    golden_file,  \* content of the golden dataset file (JSON), or NoFile
    pc,           \* position of the running process
    argv,         \* command line of the running process
    runs,         \* number of processes started so far
    lines,        \* read_corpus: the lines of the file not read yet
    sentences,    \* read_corpus / generate_golden_data: sentences
    golden_data,  \* generate_golden_data / run_tests: list of entries
    i,            \* loop index (1-based) of the entry being processed
    results,      \* run_tests: the summary dict, or None
    actual,       \* run_tests: last result of transcribe_sentence, or None
    differences,  \* run_tests: last result of compare_results, or None
    calls,        \* engine invocations of the running process, in order
    uncaught,     \* the exception that ended the process, or None
    generated,    \* the list handed to the last save_golden_data, or None
    exit_code,    \* exit status of the process, or None while it runs
    expected,     \* compare_results: its first argument (comparison spec)
    printed       \* print_test_summary: the failures shown and the remainder

vars == <<corpus, golden_file, pc, argv, runs, lines, sentences, golden_data,
          i, results, actual, differences, calls, uncaught, generated,
          exit_code, expected, printed>>

\* Python's None, a missing file and "not set yet": an optional value is a
\* sequence of length 0 or 1
None    == <<>>
Some(x) == <<x>>
Val(o)  == o[1]

NoFile      == None
NoException == "None"

-----------------------------------------------------------------------------
(* Bounds of the model *)

MaxFileLen     == 7   \* characters of a corpus file (corpus specification)
MaxCorpusLines == 3   \* lines of a corpus file (harness specification)
MaxEntries     == 3   \* entries of a golden dataset file found on disk
MaxRuns        == 2   \* processes started one after the other
MaxSeqLen      == 2   \* length of a words / syllables list (comparison)

-----------------------------------------------------------------------------
(* Small helpers on sequences *)

RECURSIVE SeqsUpTo(_, _)
SeqsUpTo(S, n) ==
    IF n = 0 THEN {<<>>}
    ELSE LET shorter == SeqsUpTo(S, n - 1)
         IN  shorter \cup {Append(s, x) : s \in {t \in shorter : Len(t) = n - 1}, x \in S}

RECURSIVE Concat(_)
Concat(ss) == IF ss = <<>> THEN <<>> ELSE Head(ss) \o Concat(Tail(ss))

-----------------------------------------------------------------------------
(* read_corpus *)

Whitespace == {" ", "\n"}

\* `for line in f`: the file's lines, each with its terminating newline
RECURSIVE readlines(_, _)
readlines(content, cur) ==
    IF content = <<>>
    THEN IF cur = <<>> THEN <<>> ELSE <<cur>>
    ELSE IF Head(content) = "\n"
         THEN <<Append(cur, "\n")>> \o readlines(Tail(content), <<>>)
         ELSE readlines(Tail(content), Append(cur, Head(content)))

RECURSIVE lstrip(_)
lstrip(s) ==
    IF s = <<>> THEN s
    ELSE IF Head(s) \in Whitespace THEN lstrip(Tail(s)) ELSE s

RECURSIVE rstrip(_)
rstrip(s) ==
    IF s = <<>> THEN s
    ELSE IF s[Len(s)] \in Whitespace THEN rstrip(SubSeq(s, 1, Len(s) - 1)) ELSE s

strip_lonly(s) == lstrip(s)

\* line.strip()
strip(s) == rstrip(lstrip(s))

\* line.startswith('#')
startswith_hash(s) == Len(s) > 0 /\ s[1] = "#"

\* `if line and not line.startswith('#')`
keep_line(s) == s # <<>> /\ ~startswith_hash(s)

read_corpus_open ==
    /\ pc = "read_corpus"
    /\ IF corpus = NoFile
       THEN \* open() raises FileNotFoundError, nothing catches it
            /\ pc' = "exit"
            /\ uncaught' = "FileNotFoundError"
            /\ exit_code' = Some(1)
            /\ UNCHANGED <<lines, sentences>>
       ELSE /\ pc' = "read_corpus_loop"
            /\ lines' = readlines(Val(corpus), <<>>)
            /\ sentences' = <<>>
            /\ UNCHANGED <<exit_code, uncaught>>
    /\ UNCHANGED <<corpus, golden_file, argv, runs, golden_data, i, results,
                   actual, differences, calls, generated, expected, printed>>

read_corpus_line ==
    /\ pc = "read_corpus_loop"
    /\ lines # <<>>
    /\ LET line == strip(Head(lines))
       IN  sentences' = IF keep_line(line) THEN Append(sentences, line) ELSE sentences
    /\ lines' = Tail(lines)
    /\ UNCHANGED <<corpus, golden_file, pc, argv, runs, golden_data, i, results,
                   actual, differences, calls, uncaught, generated, exit_code,
                   expected, printed>>

read_corpus_return ==
    /\ pc = "read_corpus_loop"
    /\ lines = <<>>
    /\ pc' = "generate_loop"
    /\ golden_data' = <<>>
    /\ i' = 1
    /\ UNCHANGED <<corpus, golden_file, argv, runs, lines, sentences, results,
                   actual, differences, calls, uncaught, generated, exit_code,
                   expected, printed>>

CorpusAlphabet == {"a", "#", " ", "\n"}

InitCorpus ==
    /\ corpus \in {Some(c) : c \in SeqsUpTo(CorpusAlphabet, MaxFileLen)}
    /\ golden_file = NoFile
    /\ pc = "read_corpus"
    /\ argv = <<"generate">>
    /\ runs = 1
    /\ lines = <<>>
    /\ sentences = <<>>
    /\ golden_data = <<>>
    /\ i = 0
    /\ results = None
    /\ actual = None
    /\ differences = None
    /\ calls = <<>>
    /\ uncaught = NoException
    /\ generated = None
    /\ exit_code = None
    /\ expected = None
    /\ printed = None

NextCorpus == read_corpus_open \/ read_corpus_line \/ read_corpus_return

SpecCorpus == InitCorpus /\ [][NextCorpus]_vars

-----------------------------------------------------------------------------
(* The engine (fonemas.Transcription) and transcribe_sentence *)

Sections == <<"phonology", "phonetics", "sampa">>
Keys     == <<"words", "syllables">>

EmptyDict == <<>>

Section(w, s) == [words |-> w, syllables |-> s]

\* Transcription objects the engine may return
TA == [phonology |-> Section(<<"ola">>, <<"o", "la">>),
       phonetics |-> Section(<<"ola">>, <<"o", "la">>),
       sampa     |-> Section(<<"ola">>, <<"o", "la">>)]

TB == [TA EXCEPT !.phonology.syllables = <<"o", "la", "s">>]

Transcriptions == {TA, TB}

EngineError == "boom"

\* what one call Transcription(sentence) does: it returns an object or raises
EngineOutcomes ==
    {[raised |-> FALSE, t |-> t] : t \in Transcriptions}
        \cup {[raised |-> TRUE, msg |-> EngineError]}

transcribe_sentence(sentence, t) ==
    [input     |-> sentence,
     phonology |-> Section(t.phonology.words, t.phonology.syllables),
     phonetics |-> Section(t.phonetics.words, t.phonetics.syllables),
     sampa     |-> Section(t.sampa.words, t.sampa.syllables)]

-----------------------------------------------------------------------------
(* save_golden_data / load_golden_data: json.dump and json.load.           *)
(* The file's text is represented by the JSON value it denotes: an object  *)
(* keeps its members in the order they were written.                       *)

JStr(v)     == [type |-> "string", value |-> v]
JArr(items) == [type |-> "array", items |-> items]
JObj(mems)  == [type |-> "object", members |-> mems]

Corrupt == [type |-> "corrupt"]   \* the text of a file that is not JSON

dump_list_reversed(l) == JArr([k \in 1..Len(l) |-> JStr(l[Len(l) + 1 - k])])

\* a list of str
dump_list(l) == JArr([k \in 1..Len(l) |-> JStr(l[k])])

\* a section dict, keys in insertion order (transcribe_sentence)
dump_section(sec) ==
    JObj([k \in 1..Len(Keys) |-> <<Keys[k], dump_list(sec[Keys[k]])>>])

\* the keys of an entry in insertion order
EntryKeys(entry) ==
    IF "error" \in DOMAIN entry THEN <<"input", "error">>
    ELSE <<"input">> \o Sections

dump_entry(entry) ==
    LET ks == EntryKeys(entry)
    IN  JObj([k \in 1..Len(ks) |->
               <<ks[k], IF ks[k] \in {"input", "error"}
                        THEN JStr(entry[ks[k]])
                        ELSE dump_section(entry[ks[k]])>>])

json_dump(data) == JArr([k \in 1..Len(data) |-> dump_entry(data[k])])

RECURSIVE json_load(_)
json_load(j) ==
    CASE j.type = "string" -> j.value
      [] j.type = "array"  -> [k \in 1..Len(j.items) |-> json_load(j.items[k])]
      [] j.type = "object" ->
            LET ms == j.members
                last(key) == CHOOSE k \in 1..Len(ms) :
                                /\ ms[k][1] = key
                                /\ \A m \in 1..Len(ms) : ms[m][1] = key => m <= k
            IN  [key \in {ms[k][1] : k \in 1..Len(ms)} |-> json_load(ms[last(key)][2])]

-----------------------------------------------------------------------------
(* compare_results *)

SectionMissing == "Section missing in actual output"

\* str(KeyError(key))
KeyErrorMsg(key) ==
    CASE key = "phonology" -> "'phonology'"
      [] key = "phonetics" -> "'phonetics'"
      [] key = "sampa"     -> "'sampa'"
      [] key = "words"     -> "'words'"
      [] key = "syllables" -> "'syllables'"
      [] key = "input"     -> "'input'"

Raise(msg)  == [raised |-> TRUE, msg |-> msg]
Return(val) == [raised |-> FALSE, value |-> val]

Range(f) == {f[x] : x \in DOMAIN f}

seq_differs_as_sets(a, b) == Range(a) # Range(b)

\* `expected_val != actual_val` on two lists
seq_differs(a, b) == a # b

\* the inner loop `for key in ['words', 'syllables']`
RECURSIVE compare_keys(_, _, _, _)
compare_keys(expected_sec, actual_sec, ks, section_diffs) ==
    IF ks = <<>> THEN Return(section_diffs)
    ELSE LET key == Head(ks)
         IN  IF key \notin DOMAIN expected_sec THEN Raise(KeyErrorMsg(key))
             ELSE IF key \notin DOMAIN actual_sec THEN Raise(KeyErrorMsg(key))
             ELSE IF seq_differs(expected_sec[key], actual_sec[key])
                  THEN compare_keys(expected_sec, actual_sec, Tail(ks),
                           section_diffs @@
                               (key :> [expected |-> expected_sec[key],
                                        actual   |-> actual_sec[key]]))
                  ELSE compare_keys(expected_sec, actual_sec, Tail(ks), section_diffs)

\* the outer loop `for section in ['phonology', 'phonetics', 'sampa']`
RECURSIVE compare_sections(_, _, _, _)
compare_sections(exp, act, ss, diffs) ==
    IF ss = <<>> THEN Return(diffs)
    ELSE LET section == Head(ss)
         IN  IF section \notin DOMAIN act
             THEN compare_sections(exp, act, Tail(ss),
                      diffs @@ (section :> [error |-> SectionMissing]))
             ELSE IF section \notin DOMAIN exp THEN Raise(KeyErrorMsg(section))
             ELSE LET r == compare_keys(exp[section], act[section], Keys, EmptyDict)
                  IN  IF r.raised THEN r
                      ELSE IF DOMAIN r.value # {}
                           THEN compare_sections(exp, act, Tail(ss),
                                    diffs @@ (section :> r.value))
                           ELSE compare_sections(exp, act, Tail(ss), diffs)

compare_results(exp, act) == compare_sections(exp, act, Sections, EmptyDict)

-----------------------------------------------------------------------------
(* main: one process per command line *)

Commands == {<<>>, <<"generate">>, <<"test">>, <<"help">>}

main(args) ==
    /\ pc \in {"shell", "exit"}
    /\ runs < MaxRuns
    /\ runs' = runs + 1
    /\ argv' = args
    /\ lines' = <<>>
    /\ sentences' = <<>>
    /\ golden_data' = <<>>
    /\ i' = 0
    /\ results' = None
    /\ actual' = None
    /\ differences' = None
    /\ calls' = <<>>
    /\ uncaught' = NoException
    /\ IF Len(args) < 1
       THEN pc' = "exit" /\ exit_code' = Some(1)
       ELSE CASE args[1] = "generate" -> pc' = "read_corpus" /\ exit_code' = None
              [] args[1] = "test"     -> pc' = "run_tests" /\ exit_code' = None
              [] OTHER                -> pc' = "exit" /\ exit_code' = Some(1)
    /\ printed' = None
    /\ UNCHANGED <<corpus, golden_file, generated, expected>>

-----------------------------------------------------------------------------
(* generate_golden_data, save_golden_data *)

ErrorEntry(sentence, msg) == [input |-> sentence, error |-> msg]

generate_entry_for_always_result(sentence, out) ==
    transcribe_sentence(sentence, IF out.raised THEN TA ELSE out.t)

generate_append_prepend(data, entry) == <<entry>> \o data

\* the entry appended for one sentence: lines 80-90
generate_entry_for(sentence, out) ==
    IF out.raised THEN ErrorEntry(sentence, out.msg)
    ELSE transcribe_sentence(sentence, out.t)

\* golden_data.append(...)
generate_append(data, entry) == Append(data, entry)

generate_entry ==
    /\ pc = "generate_loop"
    /\ i <= Len(sentences)
    /\ \E out \in EngineOutcomes :
          /\ calls' = Append(calls, [sentence |-> sentences[i], out |-> out])
          /\ golden_data' =
                generate_append(golden_data, generate_entry_for(sentences[i], out))
    /\ i' = i + 1
    /\ UNCHANGED <<corpus, golden_file, pc, argv, runs, lines, sentences, results,
                   actual, differences, uncaught, generated, exit_code, expected, printed>>

generate_return ==
    /\ pc = "generate_loop"
    /\ i > Len(sentences)
    /\ pc' = "save_golden_data"
    /\ UNCHANGED <<corpus, golden_file, argv, runs, lines, sentences, golden_data,
                   i, results, actual, differences, calls, uncaught, generated,
                   exit_code, expected, printed>>

\* save_golden_data, then sys.exit(0)
save_golden_data ==
    /\ pc = "save_golden_data"
    /\ golden_file' = Some(json_dump(golden_data))
    /\ generated' = Some(golden_data)
    /\ pc' = "exit"
    /\ exit_code' = Some(0)
    /\ UNCHANGED <<corpus, argv, runs, lines, sentences, golden_data, i, results,
                   actual, differences, calls, uncaught, expected, printed>>

-----------------------------------------------------------------------------
(* run_tests *)

NewResults(data) ==
    [total |-> Len(data), passed |-> 0, failed |-> 0, errors |-> 0, failures |-> <<>>]

\* load_golden_data and the initial summary: lines 158-166
run_tests_begin ==
    /\ pc = "run_tests"
    /\ IF golden_file = NoFile \/ Val(golden_file) = Corrupt
       THEN /\ uncaught' = IF golden_file = NoFile THEN "FileNotFoundError"
                           ELSE "JSONDecodeError"
            /\ pc' = "exit"
            /\ exit_code' = Some(1)
            /\ UNCHANGED <<golden_data, results, i>>
       ELSE /\ golden_data' = json_load(Val(golden_file))
            /\ results' = Some(NewResults(json_load(Val(golden_file))))
            /\ i' = 1
            /\ pc' = "run_tests_loop"
            /\ UNCHANGED <<uncaught, exit_code>>
    /\ UNCHANGED <<corpus, golden_file, argv, runs, lines, sentences, actual,
                   differences, calls, generated, expected, printed>>

SkippedAsFailed(res) == [res EXCEPT !.failed = @ + 1]

\* line 175
Skipped(res) == [res EXCEPT !.errors = @ + 1]

PassedUncounted(res) == res

\* line 198
Passed(res) == [res EXCEPT !.passed = @ + 1]

FailedUnrecorded(res, idx, sentence, diffs) == [res EXCEPT !.failed = @ + 1]

\* lines 188-193
Failed(res, idx, sentence, diffs) ==
    [res EXCEPT !.failed = @ + 1,
                !.failures = Append(@, [index |-> idx, sentence |-> sentence,
                                        differences |-> diffs])]

ErroredAsFailed(res, idx, sentence, msg) ==
    [res EXCEPT !.failed = @ + 1,
                !.failures = Append(@, [index |-> idx, sentence |-> sentence,
                                        error |-> msg])]

\* lines 203-208
Errored(res, idx, sentence, msg) ==
    [res EXCEPT !.errors = @ + 1,
                !.failures = Append(@, [index |-> idx, sentence |-> sentence,
                                        error |-> msg])]

\* one iteration of the loop: lines 170-211
run_tests_entry ==
    /\ pc = "run_tests_loop"
    /\ i <= Len(golden_data)
    /\ LET entry == golden_data[i]
       IN  IF "input" \notin DOMAIN entry
           THEN \* expected["input"] raises KeyError outside the try block
                /\ uncaught' = "KeyError"
                /\ pc' = "exit"
                /\ exit_code' = Some(1)
                /\ UNCHANGED <<i, results, actual, differences, calls>>
           ELSE IF "error" \in DOMAIN entry
           THEN /\ results' = Some(Skipped(Val(results)))
                /\ i' = i + 1
                /\ UNCHANGED <<pc, actual, differences, calls, uncaught, exit_code>>
           ELSE \E out \in EngineOutcomes :
                /\ calls' = Append(calls, [sentence |-> entry.input, out |-> out])
                /\ i' = i + 1
                /\ UNCHANGED <<pc, uncaught, exit_code>>
                /\ IF out.raised
                   THEN /\ results' = Some(Errored(Val(results), i, entry.input, out.msg))
                        /\ UNCHANGED <<actual, differences>>
                   ELSE LET act == transcribe_sentence(entry.input, out.t)
                            r   == compare_results(entry, act)
                        IN  /\ actual' = Some(act)
                            /\ IF r.raised
                               THEN /\ results' = Some(Errored(Val(results), i, entry.input, r.msg))
                                    /\ UNCHANGED differences
                               ELSE /\ differences' = Some(r.value)
                                    /\ results' =
                                          IF DOMAIN r.value # {}
                                          THEN Some(Failed(Val(results), i,
                                                           entry.input, r.value))
                                          ELSE Some(Passed(Val(results)))
    /\ UNCHANGED <<corpus, golden_file, argv, runs, lines, sentences, golden_data,
                   generated, expected, printed>>

run_tests_return ==
    /\ pc = "run_tests_loop"
    /\ i > Len(golden_data)
    /\ pc' = "print_test_summary"
    /\ UNCHANGED <<corpus, golden_file, argv, runs, lines, sentences, golden_data,
                   i, results, actual, differences, calls, uncaught, generated,
                   exit_code, expected, printed>>

\* line 252
summary_code(res) == IF res.failed = 0 /\ res.errors = 0 THEN 0 ELSE 1

\* `results['failures'][:10]`
DisplayLimit == 10

\* line 247: the count of the "... and N more failures" line, if printed
summary_more(failures) ==
    IF Len(failures) > DisplayLimit THEN Some(Len(failures) - DisplayLimit)
    ELSE None

\* lines 237-247: the failure records shown and the remainder reported
summary_failures(failures) ==
    [shown |-> SubSeq(failures, 1,
                      IF Len(failures) < DisplayLimit THEN Len(failures)
                      ELSE DisplayLimit),
     more  |-> summary_more(failures)]

\* print_test_summary, then sys.exit(exit_code)
print_test_summary ==
    /\ pc = "print_test_summary"
    /\ IF Val(results).total = 0
       THEN \* results['passed']/results['total'] raises ZeroDivisionError
            /\ uncaught' = "ZeroDivisionError"
            /\ exit_code' = Some(1)
            /\ UNCHANGED printed
       ELSE /\ exit_code' = Some(summary_code(Val(results)))
            /\ printed' = Some(summary_failures(Val(results).failures))
            /\ UNCHANGED uncaught
    /\ pc' = "exit"
    /\ UNCHANGED <<corpus, golden_file, argv, runs, lines, sentences, golden_data,
                   i, results, actual, differences, calls, generated, expected>>

-----------------------------------------------------------------------------
(* The harness: files found on disk, then any sequence of commands *)

RawLines ==
    { <<"a", "\n">>, <<" ", "b", " ", "\n">>, <<"#", "a", "\n">>, <<"\n">> }

CorpusFiles ==
    {NoFile} \cup {Some(Concat(ls)) : ls \in SeqsUpTo(RawLines, MaxCorpusLines)}

DropMember(j, key) ==
    JObj(SelectSeq(j.members, LAMBDA m : m[1] # key))

DiskEntries ==
    { dump_entry(transcribe_sentence(<<"a">>, TA)),
      dump_entry(transcribe_sentence(<<"a">>, TB)),
      dump_entry(transcribe_sentence(<<"b">>, TA)),
      dump_entry(ErrorEntry(<<"b">>, EngineError)),
      DropMember(dump_entry(transcribe_sentence(<<"a">>, TA)), "input"),
      DropMember(dump_entry(transcribe_sentence(<<"a">>, TA)), "sampa") }

GoldenFiles ==
    {NoFile, Some(Corrupt)}
        \cup {Some(JArr(es)) : es \in SeqsUpTo(DiskEntries, MaxEntries)}

\* Either no dataset has been generated yet and the corpus is any corpus, or a
\* dataset of an earlier generation (or any other file) is on disk next to a
\* one-sentence corpus.
Init ==
    /\ \/ corpus \in CorpusFiles /\ golden_file = NoFile
       \/ corpus = Some(<<"a", "\n">>) /\ golden_file \in GoldenFiles
    /\ pc = "shell"
    /\ argv = <<>>
    /\ runs = 0
    /\ lines = <<>>
    /\ sentences = <<>>
    /\ golden_data = <<>>
    /\ i = 0
    /\ results = None
    /\ actual = None
    /\ differences = None
    /\ calls = <<>>
    /\ uncaught = NoException
    /\ generated = None
    /\ exit_code = None
    /\ expected = None
    /\ printed = None

Next ==
    \/ \E args \in Commands : main(args)
    \/ read_corpus_open
    \/ read_corpus_line
    \/ read_corpus_return
    \/ generate_entry
    \/ generate_return
    \/ save_golden_data
    \/ run_tests_begin
    \/ run_tests_entry
    \/ run_tests_return
    \/ print_test_summary

Spec == Init /\ [][Next]_vars

-----------------------------------------------------------------------------
(* The test command on its own: `python golden_dataset.py test` has just    *)
(* been started on any dataset file, or it is in the middle of a dataset    *)
(* with more entries than print_test_summary shows failures: the first      *)
(* entry, an error variant, was skipped, and the engine raised on every     *)
(* later entry dealt with so far.                                           *)

LongEntry(k) ==
    IF k = 1 THEN dump_entry(ErrorEntry(<<"b">>, EngineError))
    ELSE dump_entry(transcribe_sentence(<<"a">>, TA))

LongDataset == JArr([k \in 1..(DisplayLimit + 3) |-> LongEntry(k)])

\* the summary after the first n entries of the long dataset
RECURSIVE LongResults(_, _)
LongResults(data, n) ==
    IF n = 0 THEN NewResults(data)
    ELSE IF n = 1 THEN Skipped(LongResults(data, 0))
    ELSE Errored(LongResults(data, n - 1), n, data[n].input, EngineError)

\* the engine calls made for entries 2..n of the long dataset
LongCalls(n) ==
    [c \in 1..(n - 1) |->
        [sentence |-> <<"a">>, out |-> [raised |-> TRUE, msg |-> EngineError]]]

InitTest ==
    /\ corpus = NoFile
    /\ argv = <<"test">>
    /\ runs = 1
    /\ lines = <<>>
    /\ sentences = <<>>
    /\ differences = None
    /\ uncaught = NoException
    /\ generated = None
    /\ exit_code = None
    /\ expected = None
    /\ printed = None
    /\ \/ /\ golden_file \in GoldenFiles
          /\ pc = "run_tests"
          /\ golden_data = <<>>
          /\ i = 0
          /\ results = None
          /\ actual = None
          /\ calls = <<>>
       \/ /\ golden_file = Some(LongDataset)
          /\ pc = "run_tests_loop"
          /\ golden_data = json_load(LongDataset)
          /\ i = DisplayLimit + 1
          /\ results = Some(LongResults(json_load(LongDataset), DisplayLimit))
          /\ actual = None
          /\ calls = LongCalls(DisplayLimit)

NextTest ==
    \/ run_tests_begin
    \/ run_tests_entry
    \/ run_tests_return
    \/ print_test_summary

SpecTest == InitTest /\ [][NextTest]_vars

-----------------------------------------------------------------------------
(* compare_results on its own: inputs drawn from bounded sets *)

FieldValues == SeqsUpTo({"o", "la"}, MaxSeqLen)

CompareExpected ==
    {[TA EXCEPT !.phonology = Section(w, s)] : w \in FieldValues, s \in FieldValues}

DropKey(d, key) == [k \in DOMAIN d \ {key} |-> d[k]]

CompareActualFull ==
    {[TA EXCEPT !.phonology = Section(w, s), !.sampa.syllables = y] :
        w \in FieldValues, s \in FieldValues, y \in {<<"o", "la">>, <<"o", "la", "s">>}}

CompareActual ==
    CompareActualFull
        \cup {DropKey(a, "phonetics") : a \in {b \in CompareActualFull : b.phonology.words = <<>>}}
        \cup {[TA EXCEPT !.sampa = [words |-> <<"ola">>]]}

InitCompare ==
    /\ expected \in {Some(e) : e \in CompareExpected \cup {DropKey(TA, "sampa")}}
    /\ actual \in {Some(a) : a \in CompareActual}
    /\ pc = "compare_results"
    /\ differences = None
    /\ uncaught = NoException
    /\ corpus = NoFile
    /\ golden_file = NoFile
    /\ argv = <<>>
    /\ runs = 0
    /\ lines = <<>>
    /\ sentences = <<>>
    /\ golden_data = <<>>
    /\ i = 0
    /\ results = None
    /\ calls = <<>>
    /\ generated = None
    /\ exit_code = None
    /\ printed = None

compare_call ==
    /\ pc = "compare_results"
    /\ LET r == compare_results(Val(expected), Val(actual))
       IN  IF r.raised
           THEN uncaught' = "KeyError" /\ UNCHANGED differences
           ELSE differences' = Some(r.value) /\ UNCHANGED uncaught
    /\ pc' = "compared"
    /\ UNCHANGED <<corpus, golden_file, argv, runs, lines, sentences, golden_data,
                   i, results, actual, calls, generated, exit_code, expected, printed>>

NextCompare == compare_call

SpecCompare == InitCompare /\ [][NextCompare]_vars

-----------------------------------------------------------------------------
(* Lines and trimming, stated without the code's loops *)

IsWs(l, k) == l[k] \in Whitespace

\* the part of l between its first and its last non-whitespace character
Trimmed(l) ==
    LET nonws == {k \in 1..Len(l) : ~IsWs(l, k)}
    IN  IF nonws = {} THEN <<>>
        ELSE LET lo == CHOOSE k \in nonws : \A j \in nonws : k <= j
                 hi == CHOOSE k \in nonws : \A j \in nonws : k >= j
             IN  [n \in 1..(hi - lo + 1) |-> l[lo + n - 1]]

\* the lines of a text: the maximal pieces ending at a newline or at the end
TextLines(content) ==
    LET ends   == {k \in 1..Len(content) : content[k] = "\n" \/ k = Len(content)}
        nth(n) == CHOOSE k \in ends : Cardinality({j \in ends : j < k}) = n - 1
        start(n) == IF n = 1 THEN 1 ELSE nth(n - 1) + 1
    IN  [n \in 1..Cardinality(ends) |->
            [m \in 1..(nth(n) - start(n) + 1) |-> content[start(n) + m - 1]]]

KeptLines(content) ==
    LET L == TextLines(content)
    IN  {k \in 1..Len(L) : Trimmed(L[k]) # <<>> /\ Trimmed(L[k])[1] # "#"}

-----------------------------------------------------------------------------
(* Vocabulary of the claims *)

SectionSet == {"phonology", "phonetics", "sampa"}
KeySet     == {"words", "syllables"}

\* two lists differ as ordered sequences
Differ(a, b) == Len(a) # Len(b) \/ \E k \in 1..Len(a) : a[k] # b[k]

\* a dict with the three sections, each with both fields
HasAllSections(d) ==
    /\ SectionSet \subseteq DOMAIN d
    /\ \A sec \in SectionSet : KeySet \subseteq DOMAIN d[sec]

\* run_tests has returned its summary
RunTestsReturned ==
    /\ results # None
    /\ \/ pc = "print_test_summary"
       \/ pc = "exit" /\ uncaught # "KeyError"

\* generate_golden_data has returned its list
GenerateReturned ==
    /\ Len(argv) > 0 /\ argv[1] = "generate"
    /\ uncaught = NoException
    /\ pc \in {"save_golden_data", "exit"}

\* a step of the test loop that has dealt with entry i
EntryStep == pc = "run_tests_loop" /\ i <= Len(golden_data) /\ i' = i + 1

\* the engine was called in this step
CallMade == Len(calls') = Len(calls) + 1
LastOut  == calls'[Len(calls')].out

Counters(r) == <<r.passed, r.failed, r.errors>>

-----------------------------------------------------------------------------
(* C1 *)

\* C1: the summary returned by run_tests satisfies total = passed + failed +
\* errors with total the number of loaded entries; while the loop runs, every
\* entry dealt with so far has incremented exactly one of the three counters.
C1_TotalIsSum ==
    results # None =>
        LET r == Val(results)
        IN  /\ r.total = Len(golden_data)
            /\ pc = "run_tests_loop" => r.passed + r.failed + r.errors = i - 1
            /\ RunTestsReturned => r.total = r.passed + r.failed + r.errors

C1_Witness ==
    /\ RunTestsReturned
    /\ Val(results).total = 3
    /\ Val(results).passed = 1
    /\ Val(results).failed = 1
    /\ Val(results).errors = 1

-----------------------------------------------------------------------------
(* C2 *)

\* C2: the test command exits with status 0 if failed = 0 and errors = 0 and
\* with status 1 otherwise, for a dataset of any length including zero.
C2_ExitCodeContract ==
    [][pc = "print_test_summary" =>
          exit_code' = Some(IF Val(results).failed = 0 /\ Val(results).errors = 0
                            THEN 0 ELSE 1)]_vars

-----------------------------------------------------------------------------
(* C3 *)

IsErrorEntry(entry, sentence, msg) ==
    /\ DOMAIN entry = {"input", "error"}
    /\ entry.input = sentence
    /\ entry.error = msg

IsFullResult(entry, sentence, t) ==
    /\ DOMAIN entry = {"input"} \cup SectionSet
    /\ entry.input = sentence
    /\ \A sec \in SectionSet :
          /\ DOMAIN entry[sec] = KeySet
          /\ entry[sec].words = t[sec].words
          /\ entry[sec].syllables = t[sec].syllables

\* C3: generate_golden_data returns one entry per sentence; the entry is the
\* error variant {input, error} iff the engine raised on that sentence and a
\* full three-section result otherwise; a failure stops no later sentence.
C3_PartialFailureIsolation ==
    /\ pc = "generate_loop" => Len(golden_data) = i - 1 /\ Len(calls) = i - 1
    /\ GenerateReturned =>
          /\ Len(golden_data) = Len(sentences)
          /\ Len(calls) = Len(sentences)
          /\ \A k \in 1..Len(sentences) :
                /\ calls[k].sentence = sentences[k]
                /\ ("error" \in DOMAIN golden_data[k]) <=> calls[k].out.raised
                /\ IF calls[k].out.raised
                   THEN IsErrorEntry(golden_data[k], sentences[k], calls[k].out.msg)
                   ELSE IsFullResult(golden_data[k], sentences[k], calls[k].out.t)

C3_Witness ==
    /\ GenerateReturned
    /\ Len(sentences) = 2
    /\ calls[1].out.raised
    /\ ~calls[2].out.raised
    /\ "error" \in DOMAIN golden_data[1]
    /\ "error" \notin DOMAIN golden_data[2]

-----------------------------------------------------------------------------
(* C4 *)

\* C4: the dataset returned by generate_golden_data has, at every position,
\* the input equal to the sentence read_corpus returned at that position (the
\* corpus lines after dropping blanks and comments); duplicates are kept.
C4_OrderPreserved ==
    GenerateReturned =>
        LET L == TextLines(Val(corpus))
            K == KeptLines(Val(corpus))
            nth(n) == CHOOSE k \in K : Cardinality({j \in K : j < k}) = n - 1
        IN  /\ Len(golden_data) = Cardinality(K)
            /\ Len(sentences) = Cardinality(K)
            /\ \A n \in 1..Len(golden_data) :
                  /\ golden_data[n].input = sentences[n]
                  /\ golden_data[n].input = Trimmed(L[nth(n)])

C4_Witness ==
    /\ GenerateReturned
    /\ corpus = Some(<<" ", "b", " ", "\n", "a", "\n", "a", "\n">>)
    /\ Len(golden_data) = 3
    /\ golden_data[1].input = <<"b">>
    /\ golden_data[2].input = <<"a">>
    /\ golden_data[3].input = <<"a">>
    /\ "error" \in DOMAIN golden_data[2]
    /\ "error" \notin DOMAIN golden_data[3]

-----------------------------------------------------------------------------
(* C5 *)

\* the dataset on disk is the one the last generate run saved
FreshDataset == generated # None /\ golden_file = Some(json_dump(Val(generated)))

\* C5: testing a dataset right after generating it, with an engine that
\* returns for a sentence what it returned at generation, counts every
\* result-variant entry as passed and records no failure for it.
C5_GenerateThenTest ==
    [][(/\ pc = "run_tests_loop"
        /\ FreshDataset
        /\ i \in 1..Len(Val(generated))
        /\ "error" \notin DOMAIN Val(generated)[i]
        /\ pc' # pc \/ i' # i)
       =>
       (/\ EntryStep
        /\ CallMade
        /\ uncaught' = NoException
        /\ (/\ ~LastOut.raised
            /\ transcribe_sentence(Val(generated)[i].input, LastOut.t)
                  = Val(generated)[i])
           => /\ Val(results').passed = Val(results).passed + 1
              /\ Val(results').failed = Val(results).failed
              /\ Val(results').errors = Val(results).errors
              /\ Val(results').failures = Val(results).failures)]_vars

C5_Witness ==
    /\ FreshDataset
    /\ RunTestsReturned
    /\ Len(Val(generated)) = 3
    /\ "error" \in DOMAIN Val(generated)[2]
    /\ Val(generated)[1] = transcribe_sentence(<<"a">>, TB)
    /\ Val(results).passed = 2
    /\ Val(results).failed = 0
    /\ Val(results).errors = 1
    /\ Val(results).failures = <<>>

-----------------------------------------------------------------------------
(* C6 *)

\* C6: for expected and actual results that both contain all three sections,
\* the diff has an entry for (section, field) iff the two lists of that field
\* differ as ordered sequences; the entry records exactly the expected and the
\* actual list; nothing else appears in the diff.
C6_DiffExact ==
    (/\ pc = "compared"
     /\ HasAllSections(Val(expected))
     /\ HasAllSections(Val(actual)))
    =>
    /\ differences # None
    /\ uncaught = NoException
    /\ LET d == Val(differences)
           e == Val(expected)
           a == Val(actual)
       IN  /\ DOMAIN d \subseteq SectionSet
           /\ \A sec \in DOMAIN d : DOMAIN d[sec] \subseteq KeySet /\ DOMAIN d[sec] # {}
           /\ \A sec \in SectionSet : \A key \in KeySet :
                 /\ (sec \in DOMAIN d /\ key \in DOMAIN d[sec])
                        <=> Differ(e[sec][key], a[sec][key])
                 /\ (sec \in DOMAIN d /\ key \in DOMAIN d[sec])
                        => /\ DOMAIN d[sec][key] = {"expected", "actual"}
                           /\ d[sec][key].expected = e[sec][key]
                           /\ d[sec][key].actual = a[sec][key]

\* a reordering of `words` in one section, everything else equal
C6_Witness ==
    /\ pc = "compared"
    /\ Val(expected) = [TA EXCEPT !.phonology = Section(<<"o", "la">>, <<"o">>)]
    /\ Val(actual) = [TA EXCEPT !.phonology = Section(<<"la", "o">>, <<"o">>)]
    /\ differences # None
    /\ DOMAIN Val(differences) = {"phonology"}
    /\ DOMAIN Val(differences).phonology = {"words"}

-----------------------------------------------------------------------------
(* C7 *)

\* C7: in the test loop an entry that is an error variant is skipped: the
\* engine is not called, errors grows by one, passed, failed and the failure
\* list do not change, and the loop goes on with the next entry.
C7_GoldenErrorSkipped ==
    [][(/\ pc = "run_tests_loop"
        /\ i <= Len(golden_data)
        /\ {"input", "error"} \subseteq DOMAIN golden_data[i])
       =>
       (/\ calls' = calls
        /\ Val(results').errors = Val(results).errors + 1
        /\ Val(results').passed = Val(results).passed
        /\ Val(results').failed = Val(results).failed
        /\ Val(results').failures = Val(results).failures
        /\ Val(results').total = Val(results).total
        /\ i' = i + 1
        /\ pc' = "run_tests_loop"
        /\ uncaught' = NoException)]_vars

C7_Witness ==
    /\ pc = "run_tests_loop"
    /\ Len(golden_data) = 2
    /\ i = 3
    /\ "error" \in DOMAIN golden_data[1]
    /\ "error" \notin DOMAIN golden_data[2]
    /\ Len(calls) = 1
    /\ Val(results).errors = 1
    /\ Val(results).passed = 1

-----------------------------------------------------------------------------
(* C8 *)

\* C8: once the per-entry loop of run_tests has started, no per-entry
\* condition aborts the run: every step of the loop stays in the loop or
\* hands the summary over, and no exception leaves it.
C8_NoAbortInLoop ==
    [][pc = "run_tests_loop" =>
          /\ uncaught' = NoException
          /\ pc' \in {"run_tests_loop", "print_test_summary"}]_vars

-----------------------------------------------------------------------------
(* C9 *)

\* how an entry is classified, from the entry and its own engine call alone
Classification(entry, called, out) ==
    IF "error" \in DOMAIN entry THEN "error"
    ELSE IF ~called \/ out.raised THEN "error"
    ELSE IF ~HasAllSections(entry) THEN "error"
    ELSE IF \E sec \in SectionSet : \E key \in KeySet :
               Differ(entry[sec][key], out.t[sec][key])
         THEN "fail"
         ELSE "pass"

CountedAs(r, rn) ==
    CASE Counters(rn) = <<r.passed + 1, r.failed, r.errors>> -> "pass"
      [] Counters(rn) = <<r.passed, r.failed + 1, r.errors>> -> "fail"
      [] Counters(rn) = <<r.passed, r.failed, r.errors + 1>> -> "error"
      [] OTHER -> "none"

\* C9: an engine failure on a result-variant entry is recorded as an error
\* (errors + 1, passed and failed unchanged, a failure record with the
\* message appended) and the loop goes on; every entry is classified from its
\* own golden record and its own engine call, whatever happened to the others.
C9_EngineFailureIsolated ==
    [][EntryStep =>
          LET r  == Val(results)
              rn == Val(results')
              entry == golden_data[i]
          IN  /\ CountedAs(r, rn) =
                    Classification(entry, CallMade, IF CallMade THEN LastOut ELSE None)
              /\ (CallMade /\ LastOut.raised) =>
                    /\ Counters(rn) = <<r.passed, r.failed, r.errors + 1>>
                    /\ rn.failures =
                          Append(r.failures, [index |-> i, sentence |-> entry.input,
                                              error |-> LastOut.msg])
                    /\ pc' = "run_tests_loop"
                    /\ uncaught' = NoException]_vars

C9_Witness ==
    /\ pc = "run_tests_loop"
    /\ Len(golden_data) = 3
    /\ i = 4
    /\ Len(calls) = 3
    /\ ~calls[1].out.raised
    /\ calls[2].out.raised
    /\ ~calls[3].out.raised
    /\ Counters(Val(results)) = <<1, 1, 1>>
    /\ Len(Val(results).failures) = 2
    /\ Val(results).failures[1].index = 2
    /\ "error" \in DOMAIN Val(results).failures[1]

-----------------------------------------------------------------------------
(* C10 *)

\* C10: read_corpus returns, in file order and without deduplication, exactly
\* the whitespace-trimmed lines that are non-empty after trimming and do not
\* start with '#'; no returned sentence is empty or starts with '#'.
C10_ReadCorpusFilters ==
    (pc = "generate_loop" /\ corpus # NoFile) =>
        LET L == TextLines(Val(corpus))
            K == KeptLines(Val(corpus))
            nth(n) == CHOOSE k \in K : Cardinality({j \in K : j < k}) = n - 1
        IN  /\ Len(sentences) = Cardinality(K)
            /\ \A n \in 1..Len(sentences) : sentences[n] = Trimmed(L[nth(n)])
            /\ \A n \in 1..Len(sentences) :
                   sentences[n] # <<>> /\ sentences[n][1] # "#"

\* the corpus "a", "# a"-like comment, blank line, "a": two sentences, a duplicate
C10_Witness ==
    /\ pc = "generate_loop"
    /\ corpus = Some(<<"a", "\n", "#", "\n", "\n", " ", "a">>)
    /\ sentences = << <<"a">>, <<"a">> >>

-----------------------------------------------------------------------------
(* C11 *)

\* the entries the test loop has dealt with
Processed == 1..(i - 1)

NotSkipped(k) == "error" \notin DOMAIN golden_data[k]

\* the engine call made for entry k (skipped entries make none)
CallOf(k) == calls[Cardinality({j \in 1..k : NotSkipped(j)})]

\* entry k was counted as failed: its comparison found a difference
CountedFailed(k) ==
    /\ NotSkipped(k)
    /\ ~CallOf(k).out.raised
    /\ HasAllSections(golden_data[k])
    /\ \E sec \in SectionSet : \E key \in KeySet :
          Differ(golden_data[k][sec][key], CallOf(k).out.t[sec][key])

\* the engine call for entry k raised
EngineRaised(k) == NotSkipped(k) /\ CallOf(k).out.raised

\* the engine returned, and the comparison raised on a golden record that
\* lacks a section or a field
ComparisonRaised(k) ==
    /\ NotSkipped(k)
    /\ ~CallOf(k).out.raised
    /\ ~HasAllSections(golden_data[k])

RecordedIndices(F) == {F[n].index : n \in 1..Len(F)}

\* what holds of the stored list and of the summary whichever entries are
\* said to be recorded
FailuresOrderedAndUncapped(r) ==
    LET F == r.failures
    IN  /\ \A n \in 1..Len(F) : F[n].index \in Processed
        /\ \A m \in 1..Len(F) : \A n \in 1..Len(F) : m < n => F[m].index < F[n].index
        /\ \A n \in 1..Len(F) : F[n].sentence = golden_data[F[n].index].input
        /\ Len(F) = r.failed + r.errors
                       - Cardinality({k \in Processed : ~NotSkipped(k)})
        /\ printed # None =>
              /\ Len(Val(printed).shown) = IF Len(F) < 10 THEN Len(F) ELSE 10
              /\ \A n \in 1..Len(Val(printed).shown) : Val(printed).shown[n] = F[n]
              /\ Val(printed).more = IF Len(F) > 10 THEN Some(Len(F) - 10) ELSE None

=============================================================================
